---- MODULE Spec2Model ----
(***************************************************************************)
(* Verification model of corelib/dynamicemb/example/example.py: the        *)
(* incremental-dump bookkeeping of inc_dump/dump, the start-up of main     *)
(* (process group, dataset download, barrier, modes), and the capacity     *)
(* estimate and placement inputs of get_planner.                           *)
(*                                                                         *)
(* The dynamicemb library itself (get_score, incremental_dump,             *)
(* DynamicEmbDump, the sharding planner) is not part of the sources; those *)
(* operators are written from the specification text (sections 4.2, 4.3).  *)
(***************************************************************************)
EXTENDS Integers, Sequences, FiniteSets, TLC

(***************************************************************************)
(* Bounds of the model.                                                    *)
(***************************************************************************)
MaxKey == 2
MaxSteps == 3
MaxDumps == 2
MaxRanks == 2
MaxFeatures == 2
MaxRows == 9
MaxOffset == 2
MaxTables == 3
MaxDevices == 2
MaxRecords == 3
MaxTime == 2
MaxEpochs == 2
MaxCkRanks == 2
MaxJobs == 3
MaxBatch == 3
MaxValue == 3

VARIABLES
    \* ---- score bookkeeping (create_model .. inc_dump / dump) ----
    scores,          \* table -> key -> order marker of the row (0: not resident)
    step,            \* the STEP score strategy's counter (one per training step)
    watermark,       \* table -> the tracker's dump watermark
    have_score,      \* inc_dump: line 804 has run
    undumped_score,  \* inc_dump: the local variable undumped_score (per table)
    ret_tensors,     \* rows returned by the last incremental_dump
    dump_number,     \* inc_dump: rows counted from ret_tensors
    full_ret,        \* rows written by the last DynamicEmbDump
    last_op,         \* the last operation that ran
    prev_op,         \* the operation before it
    prev_score,      \* undumped_score before the last operation
    prev_watermark,  \* watermark before the last operation
    pending,         \* insert/update events since the last incremental_dump
    chunks,          \* per incremental_dump call: the events that preceded it
    ret_log,         \* per incremental_dump call: the rows it returned
    \* ---- main: one process per rank ----
    num_nodes,         \* args.num_nodes
    local_world_size,  \* args.local_world_size (processes per node)
    shared_fs,         \* whether data_path is one directory for all nodes
    modes,             \* the mode flags given: --train --dump --load --incremental_dump
    pc,                \* rank -> where the process is
    sync,              \* rank -> collective calls entered (rendezvous, barriers, plans)
    mode_idx,          \* rank -> how many entries of ModeOrder it has gone through
    files,             \* volume -> which dataset files are in data_path
    zip,               \* volume -> whether data_path/ml-1m.zip exists
    fetched,           \* ranks that ran urlretrieve
    passed_barrier,    \* ranks that passed the barrier of line 857
    plan_calls,        \* rank -> collective plan constructions entered
    pg_inits,          \* rank -> dist.init_process_group calls
    pg_destroys,       \* rank -> dist.destroy_process_group calls
    \* ---- get_planner: capacity estimate ----
    eb_configs,        \* the embedding configs get_planner is given
    est_pc,            \* where get_planner is
    dict_const,        \* the constraints built so far (dict_const)
    topology,          \* whether the Topology has been built
    planner,           \* whether the planner has been built and returned
    \* ---- placement planner ----
    needs,             \* feature -> fast-memory GiB its constraint requires
    world_size,        \* number of devices of the topology
    plan_pc,           \* where the planner is
    remaining,         \* device -> remaining usable capacity (in 1/Scale GiB)
    plan,              \* the assignments made so far
    \* ---- MovieLensDataset ----
    ratings,           \* the records of ratings.dat, in file order
    users,             \* the user ids that users.dat has a record for
    quicksort,         \* the order this build's sort gives the joined rows
    ds_pc,             \* where MovieLensDataset.__init__ is
    ds_split,          \* the split argument of the dataset being built
    data,              \* the local dataframe data
    train_data,        \* self.data of the train dataset
    test_data,         \* self.data of the test dataset
    \* ---- dump and load on the save directory ----
    save_dir,          \* the files under args.save_dir
    job,               \* the arguments of the launch that is running
    jobs_run,          \* launches so far
    ck_pc,             \* rank -> where it is in dump / load
    epoch,             \* rank -> epochs of dump's loop completed
    ck_sync,           \* rank -> barriers of load entered
    removed,           \* whether this launch's load has removed save_dir
    last_dump,         \* rank -> epochs dumped since save_dir was last removed
    \* ---- collate_fn ----
    batch,             \* the argument: a list of (features, label)
    co_pc,             \* where collate_fn is
    sparse_features,   \* key -> list of values collected
    labels,            \* the labels collected
    lengths,           \* key -> lengths tensor
    values,            \* key -> values tensor
    kjt,               \* the KeyedJaggedTensor returned
    \* ---- the loops of inc_dump ----
    id_pc,             \* where inc_dump is
    id_epochs,         \* args.epochs
    num_batches,       \* len(train_loader)
    id_epoch,          \* epoch of the outer loop
    batch_idx,         \* batch_idx of the inner loop
    opt_steps,         \* optimizer steps taken: the order marker of the rows
    id_wm,             \* table -> the watermark the library holds
    id_score,          \* inc_dump's local undumped_score
    score_inits,       \* calls of get_score
    init_score,        \* what get_score returned
    dump_calls,        \* calls of incremental_dump
    last_since,        \* the since_watermark of the last call
    last_ret           \* the watermark the last call returned

trackerVars == <<scores, step, watermark, have_score, undumped_score, ret_tensors,
                 dump_number, full_ret, last_op, prev_op, prev_score,
                 prev_watermark, pending, chunks, ret_log>>

mainVars == <<num_nodes, local_world_size, shared_fs, modes, pc, sync, mode_idx,
              files, zip, fetched, passed_barrier, plan_calls, pg_inits, pg_destroys>>

estVars == <<eb_configs, est_pc, dict_const, topology, planner>>

planVars == <<needs, world_size, plan_pc, remaining, plan>>

dsVars == <<ratings, users, quicksort, ds_pc, ds_split, data, train_data, test_data>>

ckVars == <<save_dir, job, jobs_run, ck_pc, epoch, ck_sync, removed, last_dump>>

coVars == <<batch, co_pc, sparse_features, labels, lengths, values, kjt>>

idVars == <<id_pc, id_epochs, num_batches, id_epoch, batch_idx, opt_steps, id_wm, id_score,
            score_inits, init_score, dump_calls, last_since, last_ret>>

vars == <<trackerVars, mainVars, estVars, planVars, dsVars, ckVars, coVars, idVars>>

\* What the operations of one part leave alone.
notTracker == <<mainVars, estVars, planVars, dsVars, ckVars, coVars, idVars>>

notMain == <<trackerVars, estVars, planVars, dsVars, ckVars, coVars, idVars>>

notEst == <<trackerVars, mainVars, planVars, dsVars, ckVars, coVars, idVars>>

notPlan == <<trackerVars, mainVars, estVars, dsVars, ckVars, coVars, idVars>>

notDs == <<trackerVars, mainVars, estVars, planVars, ckVars, coVars, idVars>>

notCk == <<trackerVars, mainVars, estVars, planVars, dsVars, coVars, idVars>>

notCo == <<trackerVars, mainVars, estVars, planVars, dsVars, ckVars, idVars>>

notId == <<trackerVars, mainVars, estVars, planVars, dsVars, ckVars, coVars>>

(***************************************************************************)
(* Helpers.                                                                *)
(***************************************************************************)
Max(a, b) == IF a >= b THEN a ELSE b

SetMax(S, dflt) == IF S = {} THEN dflt ELSE CHOOSE x \in S : \A y \in S : y <= x

UnionSeq(s) == UNION {s[i] : i \in 1..Len(s)}

(***************************************************************************)
(* main: process group, dataset download, barrier, modes.                  *)
(***************************************************************************)
\* The ranks of the job; torchrun numbers them node by node.
Ranks == 0..(num_nodes * local_world_size - 1)

\* args.local_rank (LOCAL_RANK) and the node of a rank.
LocalRank(r) == r % local_world_size

NodeOf(r) == r \div local_world_size

\* The directory data_path names, as seen by rank r.
Volume(r) == IF shared_fs THEN 0 ELSE NodeOf(r)

Volumes == IF shared_fs THEN {0} ELSE 0..(num_nodes - 1)

\* main lines 860-867: the modes in the order main tests their flags.
\* A slip: the flag of load is tested first.
ModeOrderLoadFirst == <<"load", "train", "dump", "incremental_dump">>

\* main lines 860-867: the order in which the mode flags are tested.
ModeOrder == <<"train", "dump", "load", "incremental_dump">>

NoFiles == [ratings |-> FALSE, users |-> FALSE, movies |-> FALSE]

AllFiles == [ratings |-> TRUE, users |-> TRUE, movies |-> TRUE]

\* A data_path left with ratings.dat only.
RatingsOnly == [ratings |-> TRUE, users |-> FALSE, movies |-> FALSE]

\* No process started (the state of main's variables in the other specifications).
MainIdle ==
    /\ num_nodes = 1
    /\ local_world_size = 1
    /\ shared_fs = TRUE
    /\ modes = {}
    /\ pc = [r \in {0} |-> "start"]
    /\ sync = [r \in {0} |-> 0]
    /\ mode_idx = [r \in {0} |-> 0]
    /\ files = [v \in {0} |-> NoFiles]
    /\ zip = [v \in {0} |-> FALSE]
    /\ fetched = {}
    /\ passed_barrier = {}
    /\ plan_calls = [r \in {0} |-> 0]
    /\ pg_inits = [r \in {0} |-> 0]
    /\ pg_destroys = [r \in {0} |-> 0]

\* The launch: every process at the top of main, the arguments parsed.
MainStart ==
    /\ num_nodes \in 1..MaxRanks
    /\ local_world_size \in 1..MaxRanks
    /\ num_nodes * local_world_size <= MaxRanks
    /\ shared_fs \in BOOLEAN
    /\ modes \in SUBSET {ModeOrder[i] : i \in 1..Len(ModeOrder)}
    /\ pc = [r \in Ranks |-> "start"]
    /\ sync = [r \in Ranks |-> 0]
    /\ mode_idx = [r \in Ranks |-> 0]
    /\ files \in [Volumes -> {NoFiles, AllFiles, RatingsOnly}]
    /\ zip = [v \in Volumes |-> FALSE]
    /\ fetched = {}
    /\ passed_barrier = {}
    /\ plan_calls = [r \in Ranks |-> 0]
    /\ pg_inits = [r \in Ranks |-> 0]
    /\ pg_destroys = [r \in Ranks |-> 0]

\* Process r exists and is at l.
At(r, l) == r \in Ranks /\ pc[r] = l

Goto(r, l) == pc' = [pc EXCEPT ![r] = l]

\* A collective call is entered ...
Arrive(r) == sync' = [sync EXCEPT ![r] = @ + 1]

\* ... and returns once every rank has entered it.
AllArrived(r) == \A q \in Ranks : sync[q] >= sync[r]

\* init_distributed line 134: dist.init_process_group, a rendezvous of all ranks.
InitProcessGroup(r) ==
    /\ At(r, "start")
    /\ Goto(r, "init_process_group")
    /\ Arrive(r)
    /\ pg_inits' = [pg_inits EXCEPT ![r] = @ + 1]
    /\ UNCHANGED <<num_nodes, local_world_size, shared_fs, modes, mode_idx, files, zip,
                   fetched, passed_barrier, plan_calls, pg_destroys>>
    /\ UNCHANGED notMain

\* A slip: the download is gated by the global rank, as the comment says.
DownloaderGlobalRankZero(r) == r = 0

\* main line 853: if args.local_rank == 0: download_movielens(args.data_path)
\* (download_movielens's own gate, global_rank == 0, is its default argument).
Downloader(r) == LocalRank(r) = 0

\* main lines 843-854: the rendezvous returns; the local-rank-0 process of
\* each node goes on to download_movielens, the others to the barrier.
AfterInit(r) ==
    /\ At(r, "init_process_group")
    /\ AllArrived(r)
    /\ Goto(r, IF Downloader(r) THEN "download_movielens" ELSE "call_barrier")
    /\ UNCHANGED <<num_nodes, local_world_size, shared_fs, modes, sync, mode_idx, files,
                   zip, fetched, passed_barrier, plan_calls, pg_inits, pg_destroys>>
    /\ UNCHANGED notMain

\* download_movielens lines 161-164: makedirs; return if ratings.dat exists.
DownloadCheck(r) ==
    /\ At(r, "download_movielens")
    /\ Goto(r, IF files[Volume(r)].ratings THEN "call_barrier" ELSE "urlretrieve")
    /\ UNCHANGED <<num_nodes, local_world_size, shared_fs, modes, sync, mode_idx, files,
                   zip, fetched, passed_barrier, plan_calls, pg_inits, pg_destroys>>
    /\ UNCHANGED notMain

\* download_movielens line 170: urlretrieve writes ml-1m.zip, or raises.
DownloadFetch(r) ==
    /\ At(r, "urlretrieve")
    /\ fetched' = fetched \cup {r}
    /\ \/ /\ zip' = [zip EXCEPT ![Volume(r)] = TRUE]
          /\ Goto(r, "extract_first")
       \/ /\ Goto(r, "URLError")
          /\ UNCHANGED zip
    /\ UNCHANGED <<num_nodes, local_world_size, shared_fs, modes, sync, mode_idx, files,
                   passed_barrier, plan_calls, pg_inits, pg_destroys>>
    /\ UNCHANGED notMain

\* download_movielens lines 172-182: the archive is opened and its files
\* arrive in data_path one after another (movies.dat and ratings.dat first).
DownloadExtractFirst(r) ==
    /\ At(r, "extract_first")
    /\ IF zip[Volume(r)]
       THEN /\ files' = [files EXCEPT ![Volume(r)].movies = TRUE,
                                      ![Volume(r)].ratings = TRUE]
            /\ Goto(r, "extract_rest")
       ELSE /\ Goto(r, "ZipFileNotFound")
            /\ UNCHANGED files
    /\ UNCHANGED <<num_nodes, local_world_size, shared_fs, modes, sync, mode_idx, zip,
                   fetched, passed_barrier, plan_calls, pg_inits, pg_destroys>>
    /\ UNCHANGED notMain

\* ... then users.dat.
DownloadExtractRest(r) ==
    /\ At(r, "extract_rest")
    /\ files' = [files EXCEPT ![Volume(r)].users = TRUE]
    /\ Goto(r, "remove_zip")
    /\ UNCHANGED <<num_nodes, local_world_size, shared_fs, modes, sync, mode_idx, zip,
                   fetched, passed_barrier, plan_calls, pg_inits, pg_destroys>>
    /\ UNCHANGED notMain

\* download_movielens line 184: os.remove(zip_path) raises if it is gone.
DownloadRemoveZip(r) ==
    /\ At(r, "remove_zip")
    /\ IF zip[Volume(r)]
       THEN /\ zip' = [zip EXCEPT ![Volume(r)] = FALSE]
            /\ Goto(r, "call_barrier")
       ELSE /\ Goto(r, "ZipFileNotFound")
            /\ UNCHANGED zip
    /\ UNCHANGED <<num_nodes, local_world_size, shared_fs, modes, sync, mode_idx, files,
                   fetched, passed_barrier, plan_calls, pg_inits, pg_destroys>>
    /\ UNCHANGED notMain

\* main line 857: dist.barrier() is entered.
CallBarrier(r) ==
    /\ At(r, "call_barrier")
    /\ Goto(r, "barrier")
    /\ Arrive(r)
    /\ UNCHANGED <<num_nodes, local_world_size, shared_fs, modes, mode_idx, files, zip,
                   fetched, passed_barrier, plan_calls, pg_inits, pg_destroys>>
    /\ UNCHANGED notMain

\* main line 857: dist.barrier() returns.
PassBarrier(r) ==
    /\ At(r, "barrier")
    /\ AllArrived(r)
    /\ Goto(r, "select_mode")
    /\ passed_barrier' = passed_barrier \cup {r}
    /\ UNCHANGED <<num_nodes, local_world_size, shared_fs, modes, sync, mode_idx, files,
                   zip, fetched, plan_calls, pg_inits, pg_destroys>>
    /\ UNCHANGED notMain

\* A slip: the model (and with it the collective plan) is built before the
\* dataset is opened.
ModeStepsModelFirst == <<"create_model", "MovieLensDataset", "run_mode">>

\* train/dump/load/inc_dump: the dataset is opened, then create_model is
\* called, then the rest of the mode runs (lines 589-619, 667-682, 728-743,
\* 783-798).
ModeSteps == <<"MovieLensDataset", "create_model", "run_mode">>

\* The step of a mode function that follows step l.
StepAfter(l) == ModeSteps[1 + CHOOSE i \in 1..Len(ModeSteps) : ModeSteps[i] = l]

\* The entries of ModeOrder after the i-th whose flag is set.
LaterModes(i) == {j \in (i + 1)..Len(ModeOrder) : ModeOrder[j] \in modes}

\* main lines 860-870: the flags are tested in the order of ModeOrder; the next
\* selected mode is entered, and after the last one the process group is
\* destroyed.
SelectMode(r) ==
    /\ At(r, "select_mode")
    /\ IF LaterModes(mode_idx[r]) = {}
       THEN /\ Goto(r, "done")
            /\ pg_destroys' = [pg_destroys EXCEPT ![r] = @ + 1]
            /\ UNCHANGED mode_idx
       ELSE /\ mode_idx' = [mode_idx EXCEPT ![r] =
                               CHOOSE j \in LaterModes(@) : \A k \in LaterModes(@) : j <= k]
            /\ Goto(r, ModeSteps[1])
            /\ UNCHANGED pg_destroys
    /\ UNCHANGED <<num_nodes, local_world_size, shared_fs, modes, sync, files, zip,
                   fetched, passed_barrier, plan_calls, pg_inits>>
    /\ UNCHANGED notMain

\* MovieLensDataset.__init__ lines 190-248: ratings.dat is tested (line 191),
\* users.dat and movies.dat are opened (lines 213, 232); a missing file raises
\* FileNotFoundError.
OpenDataset(r) ==
    /\ At(r, "MovieLensDataset")
    /\ Goto(r, IF files[Volume(r)] = AllFiles
               THEN StepAfter("MovieLensDataset")
               ELSE "FileNotFoundError")
    /\ UNCHANGED <<num_nodes, local_world_size, shared_fs, modes, sync, mode_idx, files,
                   zip, fetched, passed_barrier, plan_calls, pg_inits, pg_destroys>>
    /\ UNCHANGED notMain

\* create_model -> get_dynamicemb_dmp lines 510-513: the planner is built and
\* dist.new_group / planner.collective_plan are entered, collectives of all ranks.
CreateModel(r) ==
    /\ At(r, "create_model")
    /\ Goto(r, "collective_plan")
    /\ Arrive(r)
    /\ plan_calls' = [plan_calls EXCEPT ![r] = @ + 1]
    /\ UNCHANGED <<num_nodes, local_world_size, shared_fs, modes, mode_idx, files, zip,
                   fetched, passed_barrier, pg_inits, pg_destroys>>
    /\ UNCHANGED notMain

\* The collective plan returns once every rank has entered it.
PlanDone(r) ==
    /\ At(r, "collective_plan")
    /\ AllArrived(r)
    /\ Goto(r, StepAfter("create_model"))
    /\ UNCHANGED <<num_nodes, local_world_size, shared_fs, modes, sync, mode_idx, files,
                   zip, fetched, passed_barrier, plan_calls, pg_inits, pg_destroys>>
    /\ UNCHANGED notMain

\* The rest of the mode function runs and returns to main.
RunMode(r) ==
    /\ At(r, "run_mode")
    /\ Goto(r, "select_mode")
    /\ UNCHANGED <<num_nodes, local_world_size, shared_fs, modes, sync, mode_idx, files,
                   zip, fetched, passed_barrier, plan_calls, pg_inits, pg_destroys>>
    /\ UNCHANGED notMain

MainNext ==
    \E r \in 0..(MaxRanks - 1) :
          \/ InitProcessGroup(r)
          \/ AfterInit(r)
          \/ DownloadCheck(r)
          \/ DownloadFetch(r)
          \/ DownloadExtractFirst(r)
          \/ DownloadExtractRest(r)
          \/ DownloadRemoveZip(r)
          \/ CallBarrier(r)
          \/ PassBarrier(r)
          \/ SelectMode(r)
          \/ OpenDataset(r)
          \/ CreateModel(r)
          \/ PlanDone(r)
          \/ RunMode(r)


(***************************************************************************)
(* Score bookkeeping.                                                      *)
(***************************************************************************)
\* create_model: the tables that are touched by every batch.
Tables == {"user_id"}

Keys == 1..MaxKey

\* A row of a dump, as an insert/update event: table, key, order marker.
Row(t, k, m) == [table |-> t, key |-> k, score |-> m]

\* The resident rows of the model.
ResidentRows(sc) ==
    UNION {{Row(t, k, sc[t][k]) : k \in {j \in Keys : sc[t][j] # 0}} : t \in Tables}

\* get_score(model): the current watermark of each table; no state change.
get_score(wm) == wm

\* incremental_dump, one table: scan keys k..MaxKey of the table, selecting the
\* rows whose marker is strictly greater than since and tracking the greatest
\* marker selected; the watermark is unchanged when nothing is selected.
RECURSIVE ScanTable(_, _, _, _, _)
ScanTable(t, rows, since, k, acc) ==
    IF k > MaxKey THEN acc
    ELSE IF rows[k] # 0 /\ rows[k] > since
         THEN ScanTable(t, rows, since, k + 1,
                        [rows |-> acc.rows \cup {Row(t, k, rows[k])},
                         score |-> Max(acc.score, rows[k])])
         ELSE ScanTable(t, rows, since, k + 1, acc)

\* incremental_dump(model, score): (rows per table, new watermark per table).
incremental_dump(sc, since) ==
    LET per == [t \in Tables |->
                  ScanTable(t, sc[t], since[t], 1, [rows |-> {}, score |-> since[t]])]
    IN  [rows |-> UNION {per[t].rows : t \in Tables},
         score |-> [t \in Tables |-> per[t].score]]

\* DynamicEmbDump: every resident row, whatever the watermark.
DynamicEmbDump(sc) == ResidentRows(sc)

TrackerStart ==
    /\ scores = [t \in Tables |-> [k \in Keys |-> 0]]
    /\ step = 0
    /\ watermark = [t \in Tables |-> 0]
    /\ have_score = FALSE
    /\ undumped_score = [t \in Tables |-> 0]
    /\ ret_tensors = {}
    /\ dump_number = 0
    /\ full_ret = {}
    /\ last_op = "create_model"
    /\ prev_op = "create_model"
    /\ prev_score = [t \in Tables |-> 0]
    /\ prev_watermark = [t \in Tables |-> 0]
    /\ pending = {}
    /\ chunks = <<>>
    /\ ret_log = <<>>

\* What every operation records about the state it started from.
Record(op) ==
    /\ last_op' = op
    /\ prev_op' = last_op
    /\ prev_score' = undumped_score
    /\ prev_watermark' = watermark

\* inc_dump line 804: undumped_score = get_score(model)
GetScore ==
    /\ ~have_score
    /\ have_score' = TRUE
    /\ undumped_score' = get_score(watermark)
    /\ Record("get_score")
    /\ UNCHANGED <<scores, step, watermark, ret_tensors, dump_number, full_ret,
                   pending, chunks, ret_log>>
    /\ UNCHANGED notTracker

\* One batch: forward, backward, optimizer.step(). The keys of the batch are
\* inserted or updated in every table; under DynamicEmbScoreStrategy.STEP all
\* rows touched by the step carry the step's number.
TrainStep ==
    /\ step < MaxSteps
    /\ \E touched \in [Tables -> (SUBSET Keys) \ {{}}] :
          /\ scores' = [t \in Tables |->
                          [k \in Keys |-> IF k \in touched[t] THEN step + 1
                                          ELSE scores[t][k]]]
          /\ pending' = pending \cup
                          UNION {{Row(t, k, step + 1) : k \in touched[t]} : t \in Tables}
    /\ step' = step + 1
    /\ Record("train")
    /\ UNCHANGED <<watermark, have_score, undumped_score, ret_tensors, dump_number,
                   full_ret, chunks, ret_log>>
    /\ UNCHANGED notTracker

\* A slip: the returned watermark is dropped and the old one kept.
NextScoreStale(old, returned) == old

\* inc_dump line 826: the watermark the next call is given.
NextScore(old, returned) == returned

\* A slip: every call is given the initial score instead of undumped_score.
SinceArgInitial(us) == [t \in Tables |-> 0]

\* inc_dump line 826: the since_watermark argument of the call.
SinceArg(us) == us

\* inc_dump lines 826-830:
\*   ret_tensors, undumped_score = incremental_dump(model, undumped_score)
\*   dump_number = number of rows in ret_tensors
IncDump ==
    /\ have_score
    /\ Len(ret_log) < MaxDumps
    /\ LET r == incremental_dump(scores, SinceArg(undumped_score))
       IN  /\ ret_tensors' = r.rows
           /\ undumped_score' = NextScore(undumped_score, r.score)
           /\ watermark' = [t \in Tables |->
                              IF \E x \in r.rows : x.table = t THEN r.score[t]
                              ELSE watermark[t]]
           /\ dump_number' = Cardinality(r.rows)
           /\ ret_log' = Append(ret_log, r.rows)
    /\ chunks' = Append(chunks, pending)
    /\ pending' = {}
    /\ Record("incremental_dump")
    /\ UNCHANGED <<scores, step, have_score, full_ret>>
    /\ UNCHANGED notTracker

\* A variant in which the full dump also fast-forwards the watermarks.
FullDumpAdvance ==
    /\ full_ret' = DynamicEmbDump(scores)
    /\ undumped_score' = [t \in Tables |-> step]
    /\ watermark' = [t \in Tables |-> step]
    /\ Record("DynamicEmbDump")
    /\ UNCHANGED <<scores, step, have_score, ret_tensors,
                   dump_number, pending, chunks, ret_log>>
    /\ UNCHANGED notTracker

\* A variant in which the full dump writes only the rows newer than the
\* watermark, as an incremental dump would.
FullDumpIncremental ==
    /\ full_ret' = incremental_dump(scores, watermark).rows
    /\ Record("DynamicEmbDump")
    /\ UNCHANGED <<scores, step, watermark, have_score, undumped_score, ret_tensors,
                   dump_number, pending, chunks, ret_log>>
    /\ UNCHANGED notTracker

\* dump line 724: DynamicEmbDump(save_dir/dynamicemb, model, optim=True)
FullDump ==
    /\ full_ret' = DynamicEmbDump(scores)
    /\ Record("DynamicEmbDump")
    /\ UNCHANGED <<scores, step, watermark, have_score, undumped_score, ret_tensors,
                   dump_number, pending, chunks, ret_log>>
    /\ UNCHANGED notTracker

TrackerNext == GetScore \/ TrainStep \/ IncDump \/ FullDump

(***************************************************************************)
(* get_planner: the capacity estimate (lines 394-462).                     *)
(*                                                                         *)
(* num_embeddings is a Python int of any size. It is written here as       *)
(* 2^e + m: [e |-> e, m |-> m] with 0 <= m < 2^e for n >= 1, and           *)
(* [e |-> 0, m |-> n - 1] for n <= 0.                                      *)
(***************************************************************************)
Int2(e, m) == [e |-> e, m |-> m]

\* floor(log2 n) of a small n >= 1.
FloorLog2(n) == CHOOSE e \in 0..30 : 2 ^ e <= n /\ (e = 30 \/ n < 2 ^ (e + 1))

\* A small int in that form.
FromInt(n) == IF n >= 1 THEN Int2(FloorLog2(n), n - 2 ^ FloorLog2(n)) ELSE Int2(0, n - 1)

AtLeastOne(n) == n.m >= 0

IsPowerOfTwo(n) == n.m = 0

\* a >= b, a < b and 2 * n on numbers >= 1 in that form.
GreaterEq(a, b) == a.e > b.e \/ (a.e = b.e /\ a.m >= b.m)

Less(a, b) == ~GreaterEq(a, b)

Twice(n) == Int2(n.e + 1, 2 * n.m)

\* DATA_TYPE_NUM_BITS (lines 395-399).
DATA_TYPE_NUM_BITS == [FP32 |-> 32, FP16 |-> 16, BF16 |-> 16]

DataTypes == DOMAIN DATA_TYPE_NUM_BITS

\* args.embedding_dim, used for every table (create_model lines 531-566).
Dims == {-1, 0, 1, 3, 64}

\* The exponents at which a double stops telling n from a power of two.
LargeExps == {48, 49, 53}

\* num_embeddings: small counts, the counts of create_model, counts just above
\* a large power of two, and counts below 1.
NumRows ==
    {FromInt(n) : n \in -1..MaxRows} \cup {FromInt(n) : n \in {100, 2050, 10000}}
        \cup {Int2(e, m) : e \in LargeExps, m \in 0..MaxOffset}

\* float(n), PyLong_AsDouble: the nearest double, ties to the even mantissa.
\* Doubles carry 53 significant bits, so counts up to 2^53 are exact.
ToDouble(n) ==
    IF n.e <= 52 THEN n
    ELSE LET s == 2 ^ (n.e - 52)
             q == n.m \div s
             r == n.m % s
             up == 2 * r > s \/ (2 * r = s /\ q % 2 = 1)
         IN  Int2(n.e, (IF up THEN q + 1 ELSE q) * s)

\* log2(x) of a double x = 2^e + m, m > 0, is e + m / (2^e * ln 2) to first
\* order, and the doubles next to e are 2^(floor(log2 e) - 52) apart. The
\* distance of log2(x) from e is below 1/parts of that spacing when
\* parts * m < ln 2 * 2^(e + floor(log2 e) - 52).
Log2Within(x, parts) ==
    /\ x.e >= 1
    /\ LET k == x.e + FloorLog2(x.e) - 52
       IN  k >= 0 /\ (k > 17 \/ 10000 * parts * x.m < 6931 * 2 ^ k)

\* math.ceil(math.log2(x)): e on a power of two; e when log2(x) is nearer to e
\* than to the next double; e or e + 1, by the library's rounding, when it
\* lies between the two; e + 1 otherwise.
CeilLog2(x) ==
    IF x.m = 0 \/ Log2Within(x, 2) THEN {x.e}
    ELSE IF Log2Within(x, 1) THEN {x.e, x.e + 1}
    ELSE {x.e + 1}

\* A slip: the domain error of math.log2 is lost (n = 0 taken as 1).
Log2RaisesNever(n) == FALSE

\* math.log2(n) raises ValueError (math domain error) for n <= 0.
Log2Raises(n) == ~AtLeastOne(n)

\* The smallest power of two >= n (an exponent), for n >= 1.
NextPowerOfTwo(n) == IF n.m = 0 THEN n.e ELSE n.e + 1

Feature(i, d, t, n) ==
    [name |-> i, embedding_dim |-> d, data_type |-> t, num_embeddings |-> n]

EstIdle ==
    /\ eb_configs = <<>>
    /\ est_pc = "idle"
    /\ dict_const = <<>>
    /\ topology = FALSE
    /\ planner = FALSE

\* get_planner(device, eb_configs, batch_size) is entered.
EstStart ==
    /\ \E d \in Dims : \E t \in DataTypes : \E len \in 0..MaxFeatures :
          \E ns \in [1..len -> NumRows] :
              eb_configs = [i \in 1..len |-> Feature(i, d, t, ns[i])]
    /\ est_pc = "for"
    /\ dict_const = <<>>
    /\ topology = FALSE
    /\ planner = FALSE

\* get_planner lines 408-435, one iteration of the loop:
\*   embedding_type_bytes = DATA_TYPE_NUM_BITS[tmp_type] / 8
\*   emb_num_embeddings_next_power_of_2 = 2 ** math.ceil(math.log2(n))
\*   total_hbm_need = embedding_type_bytes * dim * emb_num_embeddings_next_power_of_2
\*   dict_const[name] = DynamicEmbParameterConstraints(ROW_WISE, total_hbm_need)
\* total_hbm_need is kept as coef * 2^exp.
EstimateFeature ==
    /\ est_pc = "for"
    /\ Len(dict_const) < Len(eb_configs)
    /\ LET eb_config == eb_configs[Len(dict_const) + 1]
           dim == eb_config.embedding_dim
           embedding_type_bytes == DATA_TYPE_NUM_BITS[eb_config.data_type] \div 8
           emb_num_embeddings == eb_config.num_embeddings
       IN  IF Log2Raises(emb_num_embeddings)
           THEN /\ est_pc' = "ValueError"
                /\ UNCHANGED dict_const
           ELSE /\ \E c \in CeilLog2(ToDouble(emb_num_embeddings)) :
                      dict_const' = Append(dict_const,
                          [name |-> eb_config.name,
                           sharding_types |-> {"row_wise"},
                           next_power_of_2 |-> Int2(c, 0),
                           global_hbm_for_values |->
                               [coef |-> embedding_type_bytes * dim, exp |-> c]])
                /\ UNCHANGED est_pc
    /\ UNCHANGED <<eb_configs, topology, planner>>
    /\ UNCHANGED notEst

\* get_planner lines 437-445: the Topology is built after the loop.
BuildTopology ==
    /\ est_pc = "for"
    /\ Len(dict_const) = Len(eb_configs)
    /\ topology' = TRUE
    /\ est_pc' = "planner"
    /\ UNCHANGED <<eb_configs, dict_const, planner>>
    /\ UNCHANGED notEst

\* get_planner lines 448-462: the enumerator and the planner are built and the
\* planner is returned.
BuildPlanner ==
    /\ est_pc = "planner"
    /\ planner' = TRUE
    /\ est_pc' = "return"
    /\ UNCHANGED <<eb_configs, dict_const, topology>>
    /\ UNCHANGED notEst

EstNext == EstimateFeature \/ BuildTopology \/ BuildPlanner

(***************************************************************************)
(* The placement planner (specification section 4.2), in GiB.              *)
(***************************************************************************)
\* get_planner line 401: hbm_cap = 80 GiB per device.
hbm_cap == 80

\* get_planner line 460: HeuristicalStorageReservation(percentage=0.05), in percent.
percentage == 5

\* A slip: nothing is reserved.
UsableHbmNoReservation == hbm_cap

\* The fast memory of a device the planner may assign.
UsableHbm == (hbm_cap * (100 - percentage)) \div 100

Devices == 0..(world_size - 1)

\* Shares of a table split over up to MaxDevices devices are whole numbers of
\* 1/Scale GiB.
RECURSIVE Lcm(_, _)
Lcm(n, acc) == IF n <= 1 THEN acc
               ELSE Lcm(n - 1, CHOOSE x \in 1..(acc * n) :
                                  /\ x % acc = 0 /\ x % n = 0
                                  /\ \A y \in 1..(x - 1) : ~(y % acc = 0 /\ y % n = 0))

Scale == Lcm(MaxDevices, 1)

\* The GiB a constraint may require.
NeedValues == {0, 30, 40, 60, 100}

\* Step 1: the features by descending need, ties by declaration order.
Before(nd, i, j) == nd[i] > nd[j] \/ (nd[i] = nd[j] /\ i < j)

RECURSIVE SortFrom(_, _)
SortFrom(nd, left) ==
    IF left = {} THEN <<>>
    ELSE LET first == CHOOSE i \in left : \A j \in left \ {i} : Before(nd, i, j)
         IN  <<first>> \o SortFrom(nd, left \ {first})

SortedFeatures(nd) == SortFrom(nd, DOMAIN nd)

\* Step 3: a shard group fits when every device of it has room for its share.
Share(need, group) == (need * Scale) \div Cardinality(group)

Fits(need, group, rem) == \A dev \in group : rem[dev] >= Share(need, group)

PlanIdle ==
    /\ needs = <<>>
    /\ world_size = 1
    /\ plan_pc = "idle"
    /\ remaining = [dev \in {0} |-> 0]
    /\ plan = <<>>

\* Step 2: the remaining capacity of every device starts at the usable memory.
PlanStart ==
    /\ \E len \in 0..MaxTables : needs \in [1..len -> NeedValues]
    /\ world_size \in 1..MaxDevices
    /\ plan_pc = "plan"
    /\ remaining = [dev \in Devices |-> UsableHbm * Scale]
    /\ plan = <<>>

\* Steps 3: the next feature in sorted order is given a shard group with
\* sufficient remaining capacity, row-wise: one equal shard per device.
PlanAssign ==
    /\ plan_pc = "plan"
    /\ Len(plan) < Len(needs)
    /\ LET f == SortedFeatures(needs)[Len(plan) + 1]
       IN  \E group \in (SUBSET Devices) \ {{}} :
              /\ Fits(needs[f], group, remaining)
              /\ remaining' = [dev \in Devices |->
                                  IF dev \in group
                                  THEN remaining[dev] - Share(needs[f], group)
                                  ELSE remaining[dev]]
              /\ plan' = Append(plan, [feature |-> f, devices |-> group,
                                       share |-> Share(needs[f], group)])
    /\ UNCHANGED <<needs, world_size, plan_pc>>
    /\ UNCHANGED notPlan

\* A slip: a table that fits no single device is given up without trying the
\* row-wise split.
PlanInfeasibleNoSplit ==
    /\ plan_pc = "plan"
    /\ Len(plan) < Len(needs)
    /\ LET f == SortedFeatures(needs)[Len(plan) + 1]
       IN  \A dev \in Devices : ~Fits(needs[f], {dev}, remaining)
    /\ plan_pc' = "InfeasiblePlan"
    /\ UNCHANGED <<needs, world_size, remaining, plan>>
    /\ UNCHANGED notPlan

\* Step 4: no shard group has room for the feature.
PlanInfeasible ==
    /\ plan_pc = "plan"
    /\ Len(plan) < Len(needs)
    /\ LET f == SortedFeatures(needs)[Len(plan) + 1]
       IN  \A group \in (SUBSET Devices) \ {{}} : ~Fits(needs[f], group, remaining)
    /\ plan_pc' = "InfeasiblePlan"
    /\ UNCHANGED <<needs, world_size, remaining, plan>>
    /\ UNCHANGED notPlan

\* Step 5: every feature is assigned; the plan is returned.
PlanReturn ==
    /\ plan_pc = "plan"
    /\ Len(plan) = Len(needs)
    /\ plan_pc' = "returned"
    /\ UNCHANGED <<needs, world_size, remaining, plan>>
    /\ UNCHANGED notPlan

PlanNext == PlanAssign \/ PlanInfeasible \/ PlanReturn

(***************************************************************************)
(* MovieLensDataset.__init__ (lines 189-267): join, sort, split.           *)
(***************************************************************************)
UserIds == {1, 2}

Timestamps == 1..MaxTime

\* One line of ratings.dat (lines 197-205).
Rating(u, t) == [user_id |-> u, timestamp |-> t]

\* pd.merge(ratings_df, users_df, on="user_id", how="left"), users.dat holding
\* at most one record per user: every rating is kept, in file order, with the
\* user's attributes or null. rec is the position in ratings.dat.
Merge(rt, us) ==
    [i \in 1..Len(rt) |->
        [rec |-> i, user_id |-> rt[i].user_id, timestamp |-> rt[i].timestamp,
         gender |-> IF rt[i].user_id \in us THEN "known" ELSE "null"]]

RowOrders(n) ==
    {p \in [1..n -> 1..n] : \A i, j \in 1..n : i # j => p[i] # p[j]}

\* DataFrame.sort_values("timestamp") sorts with kind="quicksort", which is
\* not a stable sort: the result is ascending in the timestamp, and the order
\* of rows with equal timestamps is whatever the build's sort makes it.
SortOutcomes(rt) ==
    {p \in RowOrders(Len(rt)) :
        \A i, j \in 1..Len(rt) : i < j => rt[p[i]].timestamp <= rt[p[j]].timestamp}

\* data.sort_values("timestamp") (line 253), order the build's sort outcome.
sort_values(df, order) == [i \in 1..Len(df) |-> df[order[i]]]

\* split_idx = int(len(data) * 0.8) (line 255).
split_idx(df) == (8 * Len(df)) \div 10

\* data.iloc[:split_idx] and data.iloc[split_idx:] (lines 257, 259).
iloc_head(df, k) == SubSeq(df, 1, k)

iloc_tail(df, k) == SubSeq(df, k + 1, Len(df))

DsIdle ==
    /\ ratings = <<>>
    /\ users = {}
    /\ quicksort = <<>>
    /\ ds_pc = "idle"
    /\ ds_split = "train"
    /\ data = <<>>
    /\ train_data = <<>>
    /\ test_data = <<>>

\* train() lines 589-590: MovieLensDataset(args.data_path, "train") is
\* entered, the files in place.
DsStart ==
    /\ \E len \in 0..MaxRecords :
          ratings \in [1..len -> {Rating(u, t) : u \in UserIds, t \in Timestamps}]
    /\ users \in SUBSET UserIds
    /\ quicksort \in SortOutcomes(ratings)
    /\ ds_pc = "merge"
    /\ ds_split = "train"
    /\ data = <<>>
    /\ train_data = <<>>
    /\ test_data = <<>>

\* Lines 194-251: the files are read and joined.
DsMerge ==
    /\ ds_pc = "merge"
    /\ data' = Merge(ratings, users)
    /\ ds_pc' = "sort"
    /\ UNCHANGED <<ratings, users, quicksort, ds_split, train_data, test_data>>
    /\ UNCHANGED notDs

\* Line 253.
DsSort ==
    /\ ds_pc = "sort"
    /\ data' = sort_values(data, quicksort)
    /\ ds_pc' = "split"
    /\ UNCHANGED <<ratings, users, quicksort, ds_split, train_data, test_data>>
    /\ UNCHANGED notDs

\* Lines 255-259; then the test dataset is built from the same files
\* (train() line 590).
DsSplit ==
    /\ ds_pc = "split"
    /\ IF ds_split = "train"
       THEN /\ train_data' = iloc_head(data, split_idx(data))
            /\ ds_split' = "test"
            /\ ds_pc' = "merge"
            /\ UNCHANGED test_data
       ELSE /\ test_data' = iloc_tail(data, split_idx(data))
            /\ ds_pc' = "done"
            /\ UNCHANGED <<train_data, ds_split>>
    /\ data' = <<>>
    /\ UNCHANGED <<ratings, users, quicksort>>
    /\ UNCHANGED notDs

DsNext == DsMerge \/ DsSort \/ DsSplit

(***************************************************************************)
(* dump (lines 666-724) and load (lines 727-779) on a shared save          *)
(* directory, over successive launches of main.                            *)
(***************************************************************************)
AllCkRanks == 0..(MaxCkRanks - 1)

CkRanks == 0..(job.world_size - 1)

\* A slip: every rank names the file of rank 0.
CheckpointFileRankZero(e, r) == <<"model_epoch_rank", e, 0>>

\* os.path.join(args.save_dir, f"model_epoch_{e}_rank{global_rank}.pt")
\* (lines 720, 751).
CheckpointFile(e, r) == <<"model_epoch_rank", e, r>>

\* os.path.join(args.save_dir, "dynamicemb") (lines 724, 759), the part rank r
\* writes.
EmbeddingDump(r) == <<"dynamicemb", 0, r>>

\* args.epochs, the world size, and the mode flags of a launch.
Jobs ==
    {[epochs |-> e, world_size |-> w, dump |-> d, load |-> l] :
        e \in 0..MaxEpochs, w \in 1..MaxCkRanks, d \in BOOLEAN, l \in BOOLEAN}
    \ {j \in [epochs : 0..MaxEpochs, world_size : 1..MaxCkRanks,
              dump : BOOLEAN, load : BOOLEAN] : ~j.dump /\ ~j.load}

\* main lines 862-865: dump, then load.
FirstMode(j) == IF j.dump THEN "dump" ELSE "load_open"

AfterDump(j) == IF j.load THEN "load_open" ELSE "end"

CkAt(r, l) == r \in CkRanks /\ ck_pc[r] = l

CkGoto(r, l) == ck_pc' = [ck_pc EXCEPT ![r] = l]

\* A slip: the barrier lets a rank through at once.
BarrierOpenAtOnce(r) == TRUE

\* dist.barrier returns on rank r once every rank has entered it.
BarrierOpen(r) == \A q \in CkRanks : ck_sync[q] >= ck_sync[r]

CkFailed(l) == l = "FileNotFoundError"

CkIdle ==
    /\ save_dir = {}
    /\ job = [epochs |-> 0, world_size |-> 1, dump |-> FALSE, load |-> FALSE]
    /\ jobs_run = 0
    /\ ck_pc = [r \in {0} |-> "idle"]
    /\ epoch = [r \in {0} |-> 0]
    /\ ck_sync = [r \in {0} |-> 0]
    /\ removed = FALSE
    /\ last_dump = [r \in AllCkRanks |-> 0]

\* The first launch, on an empty save directory.
CkStart ==
    /\ save_dir = {}
    /\ job \in Jobs
    /\ jobs_run = 1
    /\ ck_pc = [r \in CkRanks |-> FirstMode(job)]
    /\ epoch = [r \in CkRanks |-> 0]
    /\ ck_sync = [r \in CkRanks |-> 0]
    /\ removed = FALSE
    /\ last_dump = [r \in AllCkRanks |-> 0]

\* A further launch, once every rank has returned or one has failed (the
\* launcher then ends the others).
StartJob ==
    /\ jobs_run < MaxJobs
    /\ \/ \A r \in CkRanks : ck_pc[r] = "end"
       \/ \E r \in CkRanks : CkFailed(ck_pc[r])
    /\ \E j \in Jobs :
          /\ job' = j
          /\ ck_pc' = [r \in 0..(j.world_size - 1) |-> FirstMode(j)]
          /\ epoch' = [r \in 0..(j.world_size - 1) |-> 0]
          /\ ck_sync' = [r \in 0..(j.world_size - 1) |-> 0]
    /\ jobs_run' = jobs_run + 1
    /\ removed' = FALSE
    /\ UNCHANGED <<save_dir, last_dump>>
    /\ UNCHANGED notCk

\* dump lines 688-721: one epoch, closed by torch.save of the rank's file.
DumpSave(r) ==
    /\ CkAt(r, "dump")
    /\ epoch[r] < job.epochs
    /\ save_dir' = save_dir \cup {CheckpointFile(epoch[r] + 1, r)}
    /\ epoch' = [epoch EXCEPT ![r] = epoch[r] + 1]
    /\ last_dump' = [last_dump EXCEPT ![r] = Max(last_dump[r], epoch[r] + 1)]
    /\ UNCHANGED <<job, jobs_run, ck_pc, ck_sync, removed>>
    /\ UNCHANGED notCk

\* dump line 724, after the loop: DynamicEmbDump.
DumpEmbedding(r) ==
    /\ CkAt(r, "dump")
    /\ epoch[r] = job.epochs
    /\ save_dir' = save_dir \cup {EmbeddingDump(r)}
    /\ CkGoto(r, AfterDump(job))
    /\ UNCHANGED <<job, jobs_run, epoch, ck_sync, removed, last_dump>>
    /\ UNCHANGED notCk

\* load lines 750-756: torch.load of model_epoch_{args.epochs}_rank{r}.pt,
\* which raises FileNotFoundError when the file is not there; nothing
\* catches it.
LoadOpen(r) ==
    /\ CkAt(r, "load_open")
    /\ IF CheckpointFile(job.epochs, r) \in save_dir
       THEN CkGoto(r, "load_emb")
       ELSE CkGoto(r, "FileNotFoundError")
    /\ UNCHANGED <<save_dir, job, jobs_run, epoch, ck_sync, removed, last_dump>>
    /\ UNCHANGED notCk

\* load line 759: DynamicEmbLoad.
LoadEmbedding(r) ==
    /\ CkAt(r, "load_emb")
    /\ CkGoto(r, "eval")
    /\ UNCHANGED <<save_dir, job, jobs_run, epoch, ck_sync, removed, last_dump>>
    /\ UNCHANGED notCk

\* load lines 761-776: evaluation, then the first barrier is entered.
Evaluate(r) ==
    /\ CkAt(r, "eval")
    /\ CkGoto(r, "barrier")
    /\ ck_sync' = [ck_sync EXCEPT ![r] = ck_sync[r] + 1]
    /\ UNCHANGED <<save_dir, job, jobs_run, epoch, removed, last_dump>>
    /\ UNCHANGED notCk

\* load lines 776-779: the first barrier returns; rank 0 goes on to rmtree,
\* the others enter the second barrier.
LoadBarrier(r) ==
    /\ CkAt(r, "barrier")
    /\ BarrierOpen(r)
    /\ IF r = 0
       THEN /\ CkGoto(r, "rmtree")
            /\ UNCHANGED ck_sync
       ELSE /\ CkGoto(r, "barrier_after")
            /\ ck_sync' = [ck_sync EXCEPT ![r] = ck_sync[r] + 1]
    /\ UNCHANGED <<save_dir, job, jobs_run, epoch, removed, last_dump>>
    /\ UNCHANGED notCk

\* load line 778: shutil.rmtree(args.save_dir) removes the entries one by
\* one, here the checkpoint files first.
RmtreeFiles(r) ==
    /\ CkAt(r, "rmtree")
    /\ save_dir' = {f \in save_dir : f[1] = "dynamicemb"}
    /\ last_dump' = [q \in AllCkRanks |-> 0]
    /\ CkGoto(r, "rmtree_rest")
    /\ UNCHANGED <<job, jobs_run, epoch, ck_sync, removed>>
    /\ UNCHANGED notCk

\* load lines 778-779: rmtree finishes and rank 0 enters the second barrier.
RmtreeDone(r) ==
    /\ CkAt(r, "rmtree_rest")
    /\ save_dir' = {}
    /\ removed' = TRUE
    /\ CkGoto(r, "barrier_after")
    /\ ck_sync' = [ck_sync EXCEPT ![r] = ck_sync[r] + 1]
    /\ UNCHANGED <<job, jobs_run, epoch, last_dump>>
    /\ UNCHANGED notCk

\* load line 779: the second barrier returns and load returns.
LoadReturn(r) ==
    /\ CkAt(r, "barrier_after")
    /\ BarrierOpen(r)
    /\ CkGoto(r, "end")
    /\ UNCHANGED <<save_dir, job, jobs_run, epoch, ck_sync, removed, last_dump>>
    /\ UNCHANGED notCk

CkNext ==
    \/ StartJob
    \/ \E r \in 0..(MaxCkRanks - 1) :
          \/ DumpSave(r)
          \/ DumpEmbedding(r)
          \/ LoadOpen(r)
          \/ LoadEmbedding(r)
          \/ Evaluate(r)
          \/ LoadBarrier(r)
          \/ RmtreeFiles(r)
          \/ RmtreeDone(r)
          \/ LoadReturn(r)

(***************************************************************************)
(* collate_fn (lines 289-330) on the items of __getitem__ (lines 272-286).  *)
(***************************************************************************)
\* A slip: the tensors are concatenated in sorted key order.
ValueKeysSorted == <<"age", "gender", "movie_id", "occupation", "user_id", "year">>

\* The keys of the dicts sparse_features, lengths and values, in the order of
\* their literals (lines 290-297, 306-313, 315-322).
ValueKeys == <<"user_id", "movie_id", "gender", "age", "occupation", "year">>

FeatureNames == {ValueKeys[k] : k \in DOMAIN ValueKeys}

KeyIndex(key) == CHOOSE k \in DOMAIN ValueKeys : ValueKeys[k] = key

\* MovieLensDataset.__getitem__ (lines 272-286) of a row: every feature is a
\* tensor of one value, the label is the rating. Row v holds a different
\* value under every key.
Item(v) ==
    [features |-> [key \in FeatureNames |-> <<10 * KeyIndex(key) + v>>],
     label |-> v]

\* [1] * n.
Ones(n) == [i \in 1..n |-> 1]

\* torch.cat([t[k] for k in keys]).
RECURSIVE Cat(_, _, _)
Cat(t, keys, k) == IF k = 0 THEN <<>> ELSE Cat(t, keys, k - 1) \o t[keys[k]]

NoTensors == [key \in FeatureNames |-> <<>>]

NoKjt == [keys |-> <<>>, values |-> <<>>, lengths |-> <<>>]

CoIdle ==
    /\ batch = <<>>
    /\ co_pc = "idle"
    /\ sparse_features = NoTensors
    /\ labels = <<>>
    /\ lengths = NoTensors
    /\ values = NoTensors
    /\ kjt = NoKjt

\* collate_fn(batch) is entered; lines 290-299.
CoStart ==
    /\ \E B \in 1..MaxBatch : batch \in [1..B -> {Item(v) : v \in 1..MaxValue}]
    /\ co_pc = "for"
    /\ sparse_features = NoTensors
    /\ labels = <<>>
    /\ lengths = NoTensors
    /\ values = NoTensors
    /\ kjt = NoKjt

\* Lines 301-304, one record of the batch.
CollateRecord ==
    /\ co_pc = "for"
    /\ Len(labels) < Len(batch)
    /\ LET item == batch[Len(labels) + 1]
       IN  /\ sparse_features' =
                 [key \in FeatureNames |-> sparse_features[key] \o item.features[key]]
           /\ labels' = Append(labels, item.label)
    /\ UNCHANGED <<batch, co_pc, lengths, values, kjt>>
    /\ UNCHANGED notCo

\* Lines 306-313.
CollateLengths ==
    /\ co_pc = "for"
    /\ Len(labels) = Len(batch)
    /\ lengths' = [key \in FeatureNames |-> Ones(Len(batch))]
    /\ co_pc' = "values"
    /\ UNCHANGED <<batch, sparse_features, labels, values, kjt>>
    /\ UNCHANGED notCo

\* Lines 315-322.
CollateValues ==
    /\ co_pc = "values"
    /\ values' = [key \in FeatureNames |-> sparse_features[key]]
    /\ co_pc' = "kjt"
    /\ UNCHANGED <<batch, sparse_features, labels, lengths, kjt>>
    /\ UNCHANGED notCo

\* Lines 324-330.
CollateKjt ==
    /\ co_pc = "kjt"
    /\ kjt' = [keys |-> ValueKeys,
               values |-> Cat(values, ValueKeys, Len(ValueKeys)),
               lengths |-> Cat(lengths, ValueKeys, Len(ValueKeys))]
    /\ co_pc' = "returned"
    /\ UNCHANGED <<batch, sparse_features, labels, lengths, values>>
    /\ UNCHANGED notCo

CoNext == CollateRecord \/ CollateLengths \/ CollateValues \/ CollateKjt

(***************************************************************************)
(* inc_dump (lines 804-836): the epoch and batch loops around               *)
(* incremental_dump.                                                       *)
(***************************************************************************)
\* inc_dump line 824: if batch_idx % 100 == 0.
DumpEvery == 100

\* len(train_loader): below, at and above one and two dump periods.
BatchCounts == {1, 2, 100, 101, 201}

\* A slip: the dump is made after every batch.
DumpDueEveryBatch(idx) == TRUE

\* inc_dump line 824.
DumpDue(idx) == idx % DumpEvery = 0

NoScore == [t \in Tables |-> 0]

\* The table after n optimizer steps (STEP strategy): the rows of the last
\* batch carry the marker n; here every batch holds every key.
TableAfter(n) == [t \in Tables |-> [k \in Keys |-> n]]

IdIdle ==
    /\ id_pc = "idle"
    /\ id_epochs = 0
    /\ num_batches = 1
    /\ id_epoch = 0
    /\ batch_idx = 0
    /\ opt_steps = 0
    /\ id_wm = NoScore
    /\ id_score = NoScore
    /\ score_inits = 0
    /\ init_score = NoScore
    /\ dump_calls = 0
    /\ last_since = NoScore
    /\ last_ret = NoScore

IdStart ==
    /\ id_pc = "get_score"
    /\ id_epochs \in 0..MaxEpochs
    /\ num_batches \in BatchCounts
    /\ id_epoch = 0
    /\ batch_idx = 0
    /\ opt_steps = 0
    /\ id_wm = NoScore
    /\ id_score = NoScore
    /\ score_inits = 0
    /\ init_score = NoScore
    /\ dump_calls = 0
    /\ last_since = NoScore
    /\ last_ret = NoScore

\* Line 804: undumped_score = get_score(model).
IdGetScore ==
    /\ id_pc = "get_score"
    /\ id_score' = get_score(id_wm)
    /\ init_score' = get_score(id_wm)
    /\ score_inits' = score_inits + 1
    /\ id_pc' = "for_epoch"
    /\ UNCHANGED <<id_epochs, num_batches, id_epoch, batch_idx, opt_steps, id_wm,
                   dump_calls, last_since, last_ret>>
    /\ UNCHANGED notId

\* Lines 806-811: the next epoch is entered, or inc_dump returns.
IdEpoch ==
    /\ id_pc = "for_epoch"
    /\ IF id_epoch < id_epochs
       THEN id_pc' = "for_batch" /\ batch_idx' = 0
       ELSE id_pc' = "returned" /\ UNCHANGED batch_idx
    /\ UNCHANGED <<id_epochs, num_batches, id_epoch, opt_steps, id_wm, id_score,
                   score_inits, init_score, dump_calls, last_since, last_ret>>
    /\ UNCHANGED notId

\* Lines 811-822: forward, backward, optimizer.step() on the batch.
IdStep ==
    /\ id_pc = "for_batch"
    /\ opt_steps' = opt_steps + 1
    /\ id_pc' = "if_dump"
    /\ UNCHANGED <<id_epochs, num_batches, id_epoch, batch_idx, id_wm, id_score,
                   score_inits, init_score, dump_calls, last_since, last_ret>>
    /\ UNCHANGED notId

\* The inner loop goes to the next batch; after the last one (lines 835-836)
\* the epoch ends.
IdAdvance ==
    IF batch_idx + 1 < num_batches
    THEN /\ batch_idx' = batch_idx + 1
         /\ id_pc' = "for_batch"
         /\ UNCHANGED id_epoch
    ELSE /\ batch_idx' = batch_idx
         /\ id_epoch' = id_epoch + 1
         /\ id_pc' = "for_epoch"

\* Lines 824-833: ret_tensors, undumped_score = incremental_dump(model,
\* undumped_score).
IdDump ==
    /\ id_pc = "if_dump"
    /\ DumpDue(batch_idx)
    /\ LET ret == incremental_dump(TableAfter(opt_steps), id_score)
       IN  /\ id_score' = ret.score
           /\ id_wm' = ret.score
           /\ last_ret' = ret.score
    /\ last_since' = id_score
    /\ dump_calls' = dump_calls + 1
    /\ IdAdvance
    /\ UNCHANGED <<id_epochs, num_batches, opt_steps, score_inits, init_score>>
    /\ UNCHANGED notId

\* Line 824, the condition false.
IdNoDump ==
    /\ id_pc = "if_dump"
    /\ ~DumpDue(batch_idx)
    /\ IdAdvance
    /\ UNCHANGED <<id_epochs, num_batches, opt_steps, id_wm, id_score, score_inits,
                   init_score, dump_calls, last_since, last_ret>>
    /\ UNCHANGED notId

IdNext == IdGetScore \/ IdEpoch \/ IdStep \/ IdDump \/ IdNoDump

(***************************************************************************)
(* Specifications.                                                         *)
(***************************************************************************)
\* The bookkeeping of a freshly built model, nothing else running.
TrackerInit == TrackerStart /\ MainIdle /\ EstIdle /\ PlanIdle /\ DsIdle /\ CkIdle /\ CoIdle /\ IdIdle

SpecTracker == TrackerInit /\ [][TrackerNext]_vars

\* The launch of main, no model built yet.
MainInit == MainStart /\ TrackerStart /\ EstIdle /\ PlanIdle /\ DsIdle /\ CkIdle /\ CoIdle /\ IdIdle

SpecMain == MainInit /\ [][MainNext]_vars

\* get_planner is called with some embedding configs.
EstInit == EstStart /\ TrackerStart /\ MainIdle /\ PlanIdle /\ DsIdle /\ CkIdle /\ CoIdle /\ IdIdle

SpecEstimate == EstInit /\ [][EstNext]_vars

\* The planner is given some constraints and a topology.
PlanInit == PlanStart /\ TrackerStart /\ MainIdle /\ EstIdle /\ DsIdle /\ CkIdle /\ CoIdle /\ IdIdle

SpecPlanner == PlanInit /\ [][PlanNext]_vars

\* A mode builds its train and its test dataset from the files.
DsInit == DsStart /\ TrackerStart /\ MainIdle /\ EstIdle /\ PlanIdle /\ CkIdle /\ CoIdle /\ IdIdle

SpecDataset == DsInit /\ [][DsNext]_vars

\* Launches of main with --dump and/or --load on one save directory.
CkInit == CkStart /\ TrackerStart /\ MainIdle /\ EstIdle /\ PlanIdle /\ DsIdle /\ CoIdle /\ IdIdle

SpecCheckpoint == CkInit /\ [][CkNext]_vars

\* The DataLoader hands collate_fn a batch of dataset items.
CoInit == CoStart /\ TrackerStart /\ MainIdle /\ EstIdle /\ PlanIdle /\ DsIdle /\ CkIdle /\ IdIdle

SpecCollate == CoInit /\ [][CoNext]_vars

\* inc_dump has built its loader and a fresh model (lines 783-802).
IdInit ==
    IdStart /\ TrackerStart /\ MainIdle /\ EstIdle /\ PlanIdle /\ DsIdle /\ CkIdle /\ CoIdle

SpecIncDump == IdInit /\ [][IdNext]_vars

(***************************************************************************)
(* Claims on the score bookkeeping.                                        *)
(***************************************************************************)
SameRow(e, f) == e.table = f.table /\ e.key = f.key

\* The events of S that no later event of S on the same row supersedes.
Latest(S) == {e \in S : \A f \in S : SameRow(e, f) => f.score <= e.score}

PairwiseDisjoint(s) ==
    \A i \in 1..Len(s) : \A j \in 1..Len(s) : i < j => s[i] \cap s[j] = {}

\* Everything an earlier call returned is older than what a later call returns.
OrderPreserving(s) ==
    \A i \in 1..Len(s) : \A j \in 1..Len(s) :
        i < j => \A e \in s[i] : \A f \in s[j] :
                    e.table = f.table => e.score < f.score

\* C1 (as stated): with the watermark passed forward, the row-sets returned by
\* the incremental_dump calls are pairwise disjoint, preserve event order, and
\* their union is exactly the set of insert/update events that occurred before
\* the last call: no event is skipped, none is returned twice.
C1_PartitionOfAllEvents ==
    /\ PairwiseDisjoint(ret_log)
    /\ OrderPreserving(ret_log)
    /\ UnionSeq(ret_log) = UnionSeq(chunks)

\* C1 (amended): the row-sets are pairwise disjoint and order preserving, and
\* each call returns exactly the events since the previous call that no later
\* event on the same row superseded before the call; an event superseded
\* before the next call is never returned.
C1_PartitionOfLatestEvents ==
    /\ Len(ret_log) = Len(chunks)
    /\ PairwiseDisjoint(ret_log)
    /\ OrderPreserving(ret_log)
    /\ \A i \in 1..Len(ret_log) : ret_log[i] = Latest(chunks[i])
    /\ UnionSeq(ret_log) \subseteq UnionSeq(chunks)

\* C1 witness: two calls that both returned rows, after a row was updated
\* twice between calls.
C1_Witness ==
    /\ Len(ret_log) = 2
    /\ ret_log[1] # {}
    /\ ret_log[2] # {}
    /\ UnionSeq(ret_log) # UnionSeq(chunks)

\* C2: the watermark of each table never decreases and changes only in an
\* incremental_dump call; get_score, training steps and a full dump leave it
\* unchanged.
C2_WatermarkMonotone ==
    [][/\ \A t \in Tables : watermark'[t] >= watermark[t]
       /\ have_score => \A t \in Tables : undumped_score'[t] >= undumped_score[t]
       /\ (watermark' # watermark \/ undumped_score' # undumped_score)
             => last_op' = "incremental_dump"]_vars

\* C2 witness: an incremental_dump advanced the watermark after training and a
\* full dump had left it alone.
C2_Witness ==
    /\ last_op = "incremental_dump"
    /\ prev_op = "DynamicEmbDump"
    /\ \E t \in Tables : watermark[t] > prev_watermark[t]
                         /\ undumped_score[t] > prev_score[t]

\* C3: incremental_dump(table, w) returns exactly the resident rows whose
\* marker is strictly greater than w, and the watermark it returns is the
\* greatest marker among the returned rows, or w when no row is returned.
C3_SelectsStrictlyNewer ==
    last_op = "incremental_dump" =>
        /\ ret_tensors = {r \in ResidentRows(scores) : r.score > prev_score[r.table]}
        /\ \A t \in Tables :
              undumped_score[t] =
                  SetMax({r.score : r \in {x \in ret_tensors : x.table = t}}, prev_score[t])
        /\ dump_number = Cardinality(ret_tensors)

\* C3 witness: a call that returned a row and left out a resident row whose
\* marker equals the watermark it was given.
C3_Witness ==
    /\ last_op = "incremental_dump"
    /\ ret_tensors # {}
    /\ \E r \in ResidentRows(scores) : r.score = prev_score[r.table] /\ r \notin ret_tensors

Writers(v) ==
    {r \in Ranks : Volume(r) = v /\ pc[r] \in {"extract_first", "extract_rest", "remove_zip"}}

\* The processes that are reading the data directory v (MovieLensDataset).
Readers(v) == {r \in Ranks : Volume(r) = v /\ pc[r] = "MovieLensDataset"}

\* Only rank 0 performs the download.
C5_OnlyRankZeroFetches == fetched \subseteq {0}

\* No two processes write one data directory at the same time.
C5_NoConcurrentWriters == \A v \in Volumes : Cardinality(Writers(v)) <= 1

\* A rank reads the dataset only after it passed the barrier, and never while
\* the directory is being written.
C5_ReadAfterBarrier ==
    \A r \in Ranks :
        pc[r] = "MovieLensDataset" => r \in passed_barrier /\ Writers(Volume(r)) = {}

\* C5: only rank 0 performs the dataset download and every rank passes a
\* barrier after the download before it reads the dataset, so no rank reads a
\* data directory that is still being written and no two processes write it
\* concurrently.
C5_DownloadByRankZeroOnly ==
    /\ C5_OnlyRankZeroFetches
    /\ C5_ReadAfterBarrier
    /\ C5_NoConcurrentWriters

\* The collective calls a process can be blocked in.
Collectives == {"init_process_group", "barrier", "collective_plan"}

\* q is in a collective call that rank r, which failed on a missing dataset
\* file, will never enter: q stays blocked.
BlockedBy(q, r) ==
    /\ pc[q] \in Collectives
    /\ pc[r] = "FileNotFoundError"
    /\ sync[r] < sync[q]

\* C6 (as stated): a process that fails on a missing dataset file has attempted
\* no distributed coordination step (process-group initialization, barrier,
\* collective plan construction), and no rank is blocked in a collective call
\* while another rank has failed on a missing file.
C6_FailsBeforeCoordination ==
    \A r \in Ranks :
        pc[r] = "FileNotFoundError" =>
            /\ pg_inits[r] = 0
            /\ sync[r] = 0
            /\ plan_calls[r] = 0
            /\ \A q \in Ranks : ~BlockedBy(q, r)

\* C6 (amended): a process that fails on a missing dataset file does so after
\* process-group initialization and the download barrier and before it enters
\* any collective plan construction; no rank that reads the same data
\* directory enters one either.
C6_FailsBeforePlan ==
    \A r \in Ranks :
        pc[r] = "FileNotFoundError" =>
            /\ pg_inits[r] = 1
            /\ r \in passed_barrier
            /\ plan_calls[r] = 0
            /\ \A q \in Ranks :
                  Volume(q) = Volume(r) => plan_calls[q] = 0 /\ ~BlockedBy(q, r)

\* C6 witness: one rank failed on a missing file while a rank of another node,
\* whose files are complete, is blocked in the collective plan construction.
C6_Witness ==
    \E r \in Ranks : \E q \in Ranks :
        /\ pc[q] = "collective_plan"
        /\ BlockedBy(q, r)

(***************************************************************************)
(* Claims about the capacity estimate (SpecEstimate).                      *)
(***************************************************************************)
RowsOf(i) == eb_configs[i].num_embeddings

DimOf(i) == eb_configs[i].embedding_dim

BytesOf(i) == DATA_TYPE_NUM_BITS[eb_configs[i].data_type] \div 8

Estimated == 1..Len(dict_const)

\* C7: for every feature with n >= 1 rows of d >= 1 elements of b bytes the
\* required fast-memory capacity is b * d * next_pow2(n), next_pow2(n) the
\* smallest power of two >= n; d = 64, n = 10000 in FP32 is rounded to 16384
\* rows and requires 4,194,304 bytes.
C7_CapacityIsNextPowerOfTwo ==
    \A i \in Estimated :
        (AtLeastOne(RowsOf(i)) /\ DimOf(i) >= 1) =>
            LET need == dict_const[i].global_hbm_for_values
            IN  /\ need.coef = BytesOf(i) * DimOf(i)
                /\ need.exp = NextPowerOfTwo(RowsOf(i))
                /\ (DimOf(i) = 64 /\ RowsOf(i) = FromInt(10000) /\ BytesOf(i) = 4) =>
                       /\ dict_const[i].next_power_of_2 = FromInt(16384)
                       /\ need.coef * 2 ^ need.exp = 4194304

\* The same, for row counts below 2^48, where a double still tells n from the
\* next power of two.
C7_CapacityBelowTwoTo48 ==
    \A i \in Estimated :
        (AtLeastOne(RowsOf(i)) /\ DimOf(i) >= 1 /\ RowsOf(i).e < 48) =>
            LET need == dict_const[i].global_hbm_for_values
            IN  /\ need.coef = BytesOf(i) * DimOf(i)
                /\ need.exp = NextPowerOfTwo(RowsOf(i))

\* C8: for every n >= 1 the rounded row count 2 ** ceil(log2(n)) is the
\* smallest power of two that is >= n: it is a power of two, it is >= n, it is
\* < 2n, and it equals n when n is a power of two.
C8_SmallestPowerOfTwo ==
    \A i \in Estimated :
        AtLeastOne(RowsOf(i)) =>
            LET p == dict_const[i].next_power_of_2
            IN  /\ IsPowerOfTwo(p)
                /\ GreaterEq(p, RowsOf(i))
                /\ Less(p, Twice(RowsOf(i)))
                /\ IsPowerOfTwo(RowsOf(i)) => p = RowsOf(i)
                /\ p.e = 0 \/ Less(Int2(p.e - 1, 0), RowsOf(i))

BelowOne == {i \in 1..Len(eb_configs) : ~AtLeastOne(RowsOf(i))}

FirstBelowOne == CHOOSE i \in BelowOne : \A j \in BelowOne : i <= j

\* C9 as stated: when a feature has n < 1 or d < 1 the estimation fails before
\* any placement constraint is built, and no topology or planner is produced.
C9_InvalidConfigRejected ==
    (\E i \in 1..Len(eb_configs) : ~AtLeastOne(RowsOf(i)) \/ DimOf(i) < 1) =>
        /\ dict_const = <<>>
        /\ ~topology
        /\ ~planner
        /\ est_pc \in {"for", "ValueError"}

\* C9: the estimation fails with ValueError exactly at the first feature whose
\* row count is below 1: the constraints of the features before it have been
\* built, its own and the topology and the planner never are. An element
\* count d < 1 is not rejected: the constraint is built with an estimate
\* b * d * 2^c <= 0, and when every n >= 1 the planner is built.
C9_RowCountBelowOneRaises ==
    /\ BelowOne # {} => /\ Len(dict_const) < FirstBelowOne
                        /\ ~topology
                        /\ ~planner
                        /\ est_pc \in {"for", "ValueError"}
    /\ est_pc = "ValueError" => BelowOne # {} /\ Len(dict_const) = FirstBelowOne - 1
    /\ \A i \in Estimated :
           DimOf(i) < 1 => dict_const[i].global_hbm_for_values.coef <= 0
    /\ est_pc = "return" => /\ BelowOne = {}
                            /\ topology /\ planner
                            /\ Len(dict_const) = Len(eb_configs)

\* A constraint with d < 1 has been built, and a later feature with n < 1 has
\* raised.
C9_Witness ==
    /\ est_pc = "ValueError"
    /\ Len(dict_const) = 1
    /\ DimOf(1) < 1
    /\ dict_const[1].global_hbm_for_values.coef <= 0

(***************************************************************************)
(* Claims about the placement planner (SpecPlanner).                       *)
(***************************************************************************)
RECURSIVE LoadFrom(_, _)
LoadFrom(dev, k) ==
    IF k = 0 THEN 0
    ELSE LoadFrom(dev, k - 1) + (IF dev \in plan[k].devices THEN plan[k].share ELSE 0)

\* The capacity assigned on a device, in 1/Scale GiB.
Load(dev) == LoadFrom(dev, Len(plan))

\* C10: a returned plan assigns every feature to exactly one shard group,
\* whose shards add up to the feature's requirement, and the capacity
\* assigned on any device is at most hbm * (1 - 0.05): 76 GiB of 80 GiB.
C10_PlanCoversWithinUsable ==
    plan_pc = "returned" =>
        /\ \A f \in 1..Len(needs) :
               Cardinality({k \in 1..Len(plan) : plan[k].feature = f}) = 1
        /\ \A k \in 1..Len(plan) :
               /\ plan[k].feature \in 1..Len(needs)
               /\ plan[k].devices # {}
               /\ plan[k].devices \subseteq Devices
               /\ Cardinality(plan[k].devices) * plan[k].share
                      = needs[plan[k].feature] * Scale
        /\ \A dev \in Devices :
               /\ 100 * Load(dev) <= 95 * hbm_cap * Scale
               /\ Load(dev) <= 76 * Scale

\* Three 30 GiB tables planned on two devices, one device holding two of them.
C10_Witness ==
    /\ plan_pc = "returned"
    /\ needs = <<30, 30, 30>>
    /\ world_size = 2
    /\ \E dev \in Devices : Load(dev) = 60 * Scale

RECURSIVE SumFrom(_, _)
SumFrom(nd, k) == IF k = 0 THEN 0 ELSE SumFrom(nd, k - 1) + nd[k]

\* The total requirement is within the total usable capacity, and every
\* feature split over all devices fits a device.
Feasible ==
    /\ SumFrom(needs, Len(needs)) <= world_size * UsableHbm
    /\ \A f \in 1..Len(needs) : needs[f] <= world_size * UsableHbm

\* The feature the planner is about to place.
Pending == SortedFeatures(needs)[Len(plan) + 1]

EveryFeatureOnce ==
    \A f \in 1..Len(needs) :
        Cardinality({k \in 1..Len(plan) : plan[k].feature = f}) = 1

ConsideredSplit ==
    plan_pc = "InfeasiblePlan" =>
        \A group \in (SUBSET Devices) \ {{}} : ~Fits(needs[Pending], group, remaining)

Recs(df) == {df[i].rec : i \in 1..Len(df)}

BothBuilt == ds_pc = "done"

\* The two splits are disjoint, hold every joined row exactly once, and the
\* train split is the first floor(0.8 * N) rows.
SplitIsPartition ==
    /\ Recs(train_data) \cap Recs(test_data) = {}
    /\ Recs(train_data) \cup Recs(test_data) = 1..Len(ratings)
    /\ Len(train_data) + Len(test_data) = Len(ratings)
    /\ 10 * Len(train_data) <= 8 * Len(ratings)
    /\ 10 * (Len(train_data) + 1) > 8 * Len(ratings)

\* No test row is older than a train row.
SplitIsCausal ==
    \A i \in 1..Len(train_data) : \A j \in 1..Len(test_data) :
        train_data[i].timestamp <= test_data[j].timestamp

\* Rows with equal timestamps are in the order of their records.
TiesKeepRecordOrder ==
    LET all == train_data \o test_data
    IN  \A i, j \in 1..Len(all) :
            (i < j /\ all[i].timestamp = all[j].timestamp) => all[i].rec < all[j].rec

\* C12: the train split (the first floor(0.8 * N) rows of the
\* timestamp-sorted join) and the test split (the rest) are disjoint, together
\* hold every joined row exactly once, the maximum timestamp of train is <=
\* the minimum timestamp of test, and rows with equal timestamps keep their
\* original record order.
C12_SplitCausalTiesInRecordOrder ==
    BothBuilt => SplitIsPartition /\ SplitIsCausal /\ TiesKeepRecordOrder

\* The part of C12 that does not depend on the order of equal timestamps.
C12_SplitCausalPartition ==
    BothBuilt => SplitIsPartition /\ SplitIsCausal

(***************************************************************************)
(* Claims about dump and load (SpecCheckpoint).                            *)
(***************************************************************************)
\* Rank r leaves torch.load in this step.
Opens(r) ==
    /\ r \in CkRanks
    /\ ck_pc[r] = "load_open"
    /\ jobs_run' = jobs_run
    /\ ck_pc'[r] # "load_open"

\* A dump has written rank r's file of epoch e since the save directory was
\* last removed: dump writes the epochs 1..E'.
DumpedSinceRemoval(e, r) == 1 <= e /\ e <= last_dump[r]

\* C13: load with epoch count E on rank r opens its checkpoint only if a
\* dump has written the file of epoch E and rank r (1 <= E <= E') and no load
\* has removed the save directory since; in every other case it fails with
\* FileNotFoundError, and the rank does nothing more in that launch: no
\* fallback, no retry.
C13_LoadOpensOnlyDumpedFile ==
    [][\A r \in AllCkRanks :
          /\ Opens(r) =>
                IF DumpedSinceRemoval(job.epochs, r)
                THEN ck_pc'[r] = "load_emb"
                ELSE ck_pc'[r] = "FileNotFoundError"
          /\ (r \in CkRanks /\ CkFailed(ck_pc[r]) /\ jobs_run' = jobs_run) =>
                CkFailed(ck_pc'[r])]_vars

\* A load has failed on an epoch count beyond the epochs that were dumped.
C13_Witness ==
    \E r \in CkRanks :
        /\ CkFailed(ck_pc[r])
        /\ last_dump[r] >= 1
        /\ job.epochs > last_dump[r]

PastEvaluation == {"barrier", "rmtree", "rmtree_rest", "barrier_after", "end"}

\* C14: rank 0 removes the save directory only after every rank has read its
\* checkpoint and the embedding dump and has finished evaluation, and no rank
\* returns from load before the removal is complete.
C14_RemovalBracketedByBarriers ==
    /\ (CkAt(0, "rmtree") \/ CkAt(0, "rmtree_rest") \/ removed) =>
           \A r \in CkRanks : ck_pc[r] \in PastEvaluation
    /\ \A r \in CkRanks : (job.load /\ ck_pc[r] = "end") => removed
    /\ removed => job.load /\ ck_pc[0] \in {"barrier_after", "end"}

\* Two ranks have returned from load, the save directory removed.
C14_Witness ==
    /\ job.world_size = 2
    /\ job.load
    /\ removed
    /\ \A r \in CkRanks : ck_pc[r] = "end"

(***************************************************************************)
(* Claims about collation (SpecCollate).                                   *)
(***************************************************************************)
KeyOrder == <<"user_id", "movie_id", "gender", "age", "occupation", "year">>

\* C15: for a batch of size B the packed structure holds, for each of the six
\* features in the key order user_id, movie_id, gender, age, occupation, year,
\* B values in the order of the records and B lengths equal to 1; the flat
\* values are the per-feature sequences concatenated in key order (6 * B
\* values and 6 * B lengths), and the labels keep record order.
C15_PackedInKeyAndRecordOrder ==
    co_pc = "returned" =>
        LET B == Len(batch)
        IN  /\ kjt.keys = KeyOrder
            /\ Len(kjt.values) = 6 * B
            /\ Len(kjt.lengths) = 6 * B
            /\ \A k \in 1..6 : \A i \in 1..B :
                   /\ kjt.values[(k - 1) * B + i] = batch[i].features[KeyOrder[k]][1]
                   /\ kjt.lengths[(k - 1) * B + i] = 1
            /\ Len(labels) = B
            /\ \A i \in 1..B : labels[i] = batch[i].label

\* A batch of three different records has been packed.
C15_Witness ==
    /\ co_pc = "returned"
    /\ Len(batch) = 3
    /\ batch[1] # batch[2]
    /\ batch[2] # batch[3]
    /\ Len(kjt.values) = 18

(***************************************************************************)
(* Claims about the order of main (SpecMain).                              *)
(***************************************************************************)
FixedOrder == <<"train", "dump", "load", "incremental_dump">>

\* The place of the mode rank r is in (0 before the first mode), in the
\* fixed order.
PlaceOf(idx) ==
    IF idx = 0 THEN 0
    ELSE CHOOSE k \in 1..Len(FixedOrder) : FixedOrder[k] = ModeOrder[idx]

Raised == {"FileNotFoundError", "URLError", "ZipFileNotFound"}

\* The selected modes that come after place k in the fixed order.
SelectedAfter(k) == {j \in (k + 1)..Len(FixedOrder) : FixedOrder[j] \in modes}

GroupOnce(r) ==
    /\ pg_inits[r] <= 1
    /\ pg_destroys[r] <= 1
    /\ pc[r] # "start" => pg_inits[r] = 1
    /\ r \in passed_barrier => pg_inits[r] = 1
    /\ mode_idx[r] > 0 => r \in passed_barrier /\ ModeOrder[mode_idx[r]] \in modes
    /\ pg_destroys[r] = 1 <=> pc[r] = "done"
    /\ pc[r] = "done" => r \in passed_barrier /\ SelectedAfter(PlaceOf(mode_idx[r])) = {}
    /\ pc[r] \in Raised => pg_destroys[r] = 0

\* Rank r enters a mode in this step: the next selected one in the fixed
\* order, none skipped and none entered again.
EntersNextMode(r) ==
    mode_idx'[r] # mode_idx[r] =>
        /\ pc[r] = "select_mode"
        /\ PlaceOf(mode_idx'[r]) > PlaceOf(mode_idx[r])
        /\ FixedOrder[PlaceOf(mode_idx'[r])] \in modes
        /\ \A j \in SelectedAfter(PlaceOf(mode_idx[r])) : PlaceOf(mode_idx'[r]) <= j

\* C16: for every subset of the mode flags main runs the selected modes at
\* most once each in the order train, dump, load, incremental_dump; the
\* process group is initialized exactly once, before the download barrier and
\* before any mode, and it is destroyed exactly once, after the last selected
\* mode, unless a step raised (with no mode selected: initialized, barrier,
\* destroyed).
C16_ModesInOrderGroupOnce ==
    /\ [](\A r \in Ranks : GroupOnce(r))
    /\ [][\A r \in Ranks : EntersNextMode(r)]_vars

\* Two ranks have run dump and incremental_dump and destroyed the group.
C16_Witness ==
    /\ modes = {"dump", "incremental_dump"}
    /\ Cardinality(Ranks) = 2
    /\ \A r \in Ranks :
           pc[r] = "done" /\ pg_destroys[r] = 1 /\ ModeOrder[mode_idx[r]] = "incremental_dump"

\* No mode selected: initialized, past the barrier, destroyed.
C16_WitnessNoMode ==
    /\ modes = {}
    /\ \A r \in Ranks : pc[r] = "done" /\ mode_idx[r] = 0 /\ r \in passed_barrier

(***************************************************************************)
(* Claims about the loops of inc_dump (SpecIncDump).                       *)
(***************************************************************************)
\* The batch indices below n that are multiples of 100.
MultiplesBelow(n) == (n + 99) \div 100

\* The batches whose optimizer step and dump test are behind.
BatchesDone == IF id_pc \in {"for_batch", "if_dump"} THEN batch_idx ELSE 0

\* The calls of incremental_dump due so far: one per batch index 0, 100,
\* 200, ... of every epoch.
DumpsDue == id_epoch * MultiplesBelow(num_batches) + MultiplesBelow(BatchesDone)

\* C17: the watermark variable is initialized once from get_score, before the
\* first epoch, and never again; incremental_dump is called exactly at the
\* batches whose index in the epoch is a multiple of 100, after the optimizer
\* step of the batch; every call is given the watermark the call before it
\* returned, the first call the value of get_score.
C17_DumpEveryHundredPassingWatermark ==
    /\ [](/\ score_inits <= 1
          /\ id_pc \notin {"idle", "get_score"} => score_inits = 1
          /\ dump_calls = DumpsDue)
    /\ [][/\ score_inits' # score_inits =>
                id_pc = "get_score" /\ id_epoch = 0 /\ opt_steps = 0
          /\ dump_calls' # dump_calls =>
                /\ dump_calls' = dump_calls + 1
                /\ batch_idx % 100 = 0
                /\ id_pc = "if_dump"
                /\ opt_steps = id_epoch * num_batches + batch_idx + 1
                /\ last_since' = (IF dump_calls = 0 THEN init_score ELSE last_ret)
                /\ id_score' = last_ret'
          /\ dump_calls' = dump_calls => id_score' = id_score \/ id_pc = "get_score"]_vars

\* The fifth call, at batch 100 of the second epoch (after batches 0, 100 and
\* 200 of the first epoch and batch 0 of the second), has been given the
\* watermark the fourth returned.
C17_Witness ==
    /\ id_epoch = 1
    /\ batch_idx = 101
    /\ num_batches = 201
    /\ dump_calls = 5
    /\ last_since[CHOOSE t \in Tables : TRUE] = 202
    /\ last_ret[CHOOSE t \in Tables : TRUE] = 302

====
